---- MODULE Spec2Model ----
(***************************************************************************)
(* Model of the `welcome` module (src/main.py): the Welcome cog with its   *)
(* in-memory registry of join announcements awaiting deletion, the         *)
(* delete_later tasks, the membership event handlers and the greet button. *)
(* One community (guild) is modelled; every handler is cut at the awaits   *)
(* of the source, so that handlers interleave exactly where the event loop *)
(* lets them.                                                              *)
(***************************************************************************)
EXTENDS Integers, Sequences, FiniteSets, Bags, TLC

\* ------------------------------------------------------------------ bounds
\* Announcements (join and leave) sent in one behaviour; also the number of
\* handler invocations that can be in flight at once.
MaxMsgs == 2
\* Module reloads (teardown followed by setup) in one behaviour.
MaxReloads == 1
\* Greet button presses in one behaviour.
MaxPresses == 3
\* Templates a community has for one direction.
MaxTemplates == 1
\* Store commands (settings, add-message, remove-message) in one behaviour.
MaxCmds == 2

Members == {"m1"}
\* Who can press a greet button: the greeted member and two others.
Users == {"m1", "u1", "u2"}
MsgIds == 1..MaxMsgs
Cogs == 0..MaxReloads

\* join_duration values read from welcome_config: negative, zero, positive.
Durations == {-1, 0, 1}

VARIABLES
    db_ready,    \* Welcome.db_ready of the cog that is currently loaded
    cog,         \* which Welcome instance is loaded (counts the reloads)
    active,      \* active[c][m]: Welcome._active_join_messages of instance c
    msgs,        \* the announcements sent to the channel, by message id
    tasks,       \* tasks[i]: state of the delete_later task of announcement i
    present,     \* present[m]: m is a member of the guild
    handlers,    \* the running invocations of on_member_join and
                 \* on_member_remove, a bag of their frames
    faults,      \* whether a delete call may fail other than by NotFound
    greeters,    \* greeters[b]: WelcomeButton.greeters of announcement b
    label,       \* label[b]: the count in the button's label (0: "Welcome")
    greet_count, \* greet_count[u]: the welcome_greet_counts row of user u
    pressing,    \* the running invocations of WelcomeButton.callback
    dispatched,  \* on_greeting.dispatch calls made
    credited,    \* credited[b][u]: increments of greet_count[u] made by
                 \* presses of the button of announcement b
    presses,     \* button presses so far
    unsaved,     \* unsaved[b][u]: presses of u on the button of announcement
                 \* b whose increment_greet_count raised
    config,      \* the welcome_config row of the community
    templates,   \* templates[d]: the rows of welcome_<d>_messages
    next_id,     \* next_id[d]: the next AUTOINCREMENT id of that table
    commands,    \* the settings commands that have read and not yet written
    notice,      \* the last notice a store command sent to its invoker
    issued       \* store commands invoked so far

lifeVars == <<db_ready, cog, active, msgs, tasks, present, handlers, faults>>
greetVars == <<greeters, label, greet_count, pressing, dispatched, credited,
               presses, unsaved>>
storeVars == <<config, templates, next_id, commands, notice, issued>>
vars == <<lifeVars, greetVars, storeVars>>

\* ------------------------------------------------------------------- store
\* What a handler reads from the sqlite file is an input of the handler:
\* administrators change the row and the templates at any time through the
\* settings commands, and the reads change nothing.  The awaits of the two
\* queries are therefore taken together with the step before them.
\* *_channel is whether guild.get_channel resolves the stored id; NoRow is
\* fetchone() returning None.
NoRow == [exists |-> FALSE, enabled |-> FALSE, channel |-> FALSE, duration |-> 0]

\* SELECT join_channel_id, join_enabled, join_title, join_duration and
\* SELECT leave_channel_id, leave_enabled, leave_title, leave_duration
Rows ==
    [exists : {TRUE}, enabled : BOOLEAN, channel : BOOLEAN, duration : Durations]

\* What the store holds for one direction when a handler queries it: the
\* row, the number of templates, and ok FALSE when the store raises.
Stored == [ok : BOOLEAN, row : Rows \cup {NoRow}, messages : 0..MaxTemplates]

\* What the two queries of a handler answer: nothing when one raises, and
\* the templates are not queried after an early return.
Reads ==
    {rd \in Stored :
        /\ ~rd.ok => rd.row = NoRow
        /\ ~(rd.ok /\ rd.row.enabled /\ rd.row.channel) => rd.messages = 0}

\* Lines 157-177 of on_member_join and 237-249 of on_member_remove: what
\* the handler takes from the row, with the defaults for a missing row.
ReadConfig(row) ==
    [enabled |-> row.exists /\ row.enabled,
     channel |-> row.exists /\ row.channel,
     duration |-> IF row.exists THEN row.duration ELSE 0]

\* -------------------------------------------------------------- registry
NoEntry == [has |-> FALSE, msg |-> 0, task |-> 0]

EmptyRegistry == [m \in Members |-> NoEntry]

\* Register that keeps an entry already present for the member.
RegisterFirstWins(reg, m, i, t) ==
    IF reg[m].has THEN reg
    ELSE [reg EXCEPT ![m] = [has |-> TRUE, msg |-> i, task |-> t]]

\* Register with the task handle left out of the tuple.
RegisterWithoutTask(reg, m, i, t) ==
    [reg EXCEPT ![m] = [has |-> TRUE, msg |-> i, task |-> 0]]

\* self._active_join_messages[guild][member] = (sent_msg, delete_task);
\* 0 stands for None.
Register(reg, m, i, t) == [reg EXCEPT ![m] = [has |-> TRUE, msg |-> i, task |-> t]]

\* A lookup that leaves the entry in the registry (get instead of pop).
PopKeeping(reg, m) == reg

\* guild_msgs.pop(member.id)
Pop(reg, m) == [reg EXCEPT ![m] = NoEntry]

\* A deletion task created for every announcement, whatever its duration.
ScheduleDeleteAny(delete_after) == TRUE

\* `if delete_after and delete_after > 0` of send_formatted_message.
ScheduleDelete(delete_after) == delete_after > 0

\* TrackJoin without its test of the duration.
TrackJoinAnyDuration(sent, join_duration) == sent

\* TrackJoin without its test of sent_msg.
TrackJoinUnsent(sent, join_duration) == join_duration > 0

\* `if sent_msg and join_duration and join_duration > 0` of on_member_join.
TrackJoin(sent, join_duration) == sent /\ join_duration > 0

\* ------------------------------------------------------- announcements
\* An announcement in the channel.  timed: sent with a positive auto-delete
\* duration; delCalls and okDeletes count the delete calls issued for it and
\* those that succeeded.
Announcement(k, m, d) ==
    [kind |-> k, member |-> m, timed |-> d > 0, live |-> TRUE,
     delCalls |-> 0, okDeletes |-> 0]

\* What a delete call on announcement i can answer: success while the
\* announcement exists, NotFound once it is gone, or another HTTP error.
DeleteOutcomes(i) ==
    (IF msgs[i].live THEN {"ok"} ELSE {"notfound"}) \cup
    (IF faults THEN {"error"} ELSE {})

\* msg.delete() is called: the request leaves for the channel.
IssueDelete(ms, i) == [ms EXCEPT ![i].delCalls = @ + 1]

\* The request is answered with outcome o.
AnswerDelete(ms, i, o) ==
    IF o = "ok"
    THEN [ms EXCEPT ![i].live = FALSE, ![i].okDeletes = @ + 1]
    ELSE ms

\* ----------------------------------------------------------------- tasks
\* How delete_later ends when its delete call is answered with outcome o:
\* it returns, or `except Exception` catches what msg.delete() raised
\* (NotFound included) and log.error records the failure.
TaskEnd(o) == IF o = "ok" THEN "done" ELSE "failed"

\* task.cancel(): a task that has not finished ends with CancelledError,
\* which delete_later's `except Exception` does not catch.
Cancel(ts, t) ==
    IF t \in 1..Len(ts) /\ ts[t] \in {"sleeping", "deleting"}
    THEN [ts EXCEPT ![t] = "cancelled"]
    ELSE ts

\* ------------------------------------------------------------ handlers
\* The frame of an invocation: where it is suspended (pc) and its locals.
Idle == [pc |-> "idle", kind |-> "none", member |-> "m1", cog |-> 0,
         cmd |-> FALSE, dur |-> 0, msg |-> 0, task |-> 0, outcome |-> "none"]

Running == BagToSet(handlers)

\* Every invocation sends at most one announcement.
CanStart == Len(msgs) + BagCardinality(handlers) < MaxMsgs

\* Invocation r returns: a command goes on to its log.client reply.
Return(r, why) ==
    IF r.cmd
    THEN [Idle EXCEPT !.pc = "reply", !.kind = r.kind, !.member = r.member,
                      !.cmd = TRUE, !.outcome = why]
    ELSE Idle

\* The running invocations with frame r added (nothing when r has returned).
Started(r) ==
    IF r.pc = "idle" THEN handlers ELSE handlers (+) SetToBag({r})

\* The running invocations after r has moved on to frame r2.
Moved(r, r2) ==
    IF r2.pc = "idle" THEN handlers (-) SetToBag({r})
    ELSE (handlers (-) SetToBag({r})) (+) SetToBag({r2})

\* ------------------------------------------------------ the sqlite file
\* The community of the model and another one that shares the file.
Guilds == {"g1", "g2"}

Directions == {"join", "leave"}

\* The columns of one direction in welcome_config that a settings command
\* can supply: <d>_channel_id, <d>_title, <d>_enabled, <d>_duration.
Fields == {"channel", "title", "enabled", "duration"}

\* The column defaults of CREATE TABLE welcome_config, which are also the
\* old_* values a settings command takes when it finds no row: channel NULL
\* (0), the default title (0), enabled (1), duration 0.
DefaultRow == [channel |-> 0, title |-> 0, enabled |-> 1, duration |-> 0]

\* The value a settings command supplies for a field: a channel (1), another
\* title (1), disabled (0), a positive duration.
NewValue == [channel |-> 1, title |-> 1, enabled |-> 0, duration |-> 1]

\* No row for the community in welcome_config.
NoConfig == [exists |-> FALSE, join |-> DefaultRow, leave |-> DefaultRow]

\* SELECT <d>_channel_id, <d>_title, <d>_enabled, <d>_duration ... fetchone()
\* with the else branch of `if row`.
Select(cfg, d) == IF cfg.exists THEN cfg[d] ELSE DefaultRow

\* channel_id, new_title, new_enable, new_duration: the supplied value of a
\* field, else the old one.
Merged(old, given) ==
    [f \in Fields |-> IF f \in given THEN NewValue[f] ELSE old[f]]

\* INSERT INTO welcome_config ... ON CONFLICT(guild_id) DO UPDATE SET the
\* four columns of direction d; an inserted row has the defaults elsewhere.
Upsert(cfg, d, row) == [cfg EXCEPT !.exists = TRUE, ![d] = row]

\* DELETE ... WHERE id = ? without the test of guild_id.
DeleteAnyGuild(tbl, id, g) == {t \in tbl : t.id # id}

\* DELETE FROM welcome_<d>_messages WHERE id = ? AND guild_id = ?
Delete(tbl, id, g) == {t \in tbl : ~(t.id = id /\ t.guild = g)}

\* INSERT INTO welcome_<d>_messages (guild_id, message)
Insert(tbl, id, g) == tbl \cup {[id |-> id, guild |-> g]}

\* The notice command c ends with: log.client, log.success or log.failure.
\* The notice of remove-message is recorded with the community, the table
\* and the id of the command.
Answer(c, why) ==
    [cmd |-> c, outcome |-> why, dir |-> "none", guild |-> "none", id |-> 0]

\* The file as init_db first creates it, and no command running.
StoreStart ==
    /\ config = NoConfig
    /\ templates = [d \in Directions |-> {}]
    /\ next_id = [d \in Directions |-> 1]
    /\ commands = EmptyBag
    /\ notice = Answer("none", "none")
    /\ issued = 0

\* No button has been pressed and the greet counts table is empty.
GreetStart ==
    /\ greeters = [b \in MsgIds |-> <<>>]
    /\ label = [b \in MsgIds |-> 0]
    /\ greet_count = [u \in Users |-> 0]
    /\ pressing = EmptyBag
    /\ dispatched = 0
    /\ credited = [b \in MsgIds |-> [u \in Users |-> 0]]
    /\ presses = 0
    /\ unsaved = [b \in MsgIds |-> [u \in Users |-> 0]]

\* The cog has just been constructed: Welcome.__init__.
Start ==
    /\ db_ready = FALSE
    /\ cog = 0
    /\ active = [c \in Cogs |-> EmptyRegistry]
    /\ msgs = <<>>
    /\ tasks = <<>>
    /\ present \in [Members -> BOOLEAN]
    /\ handlers = EmptyBag
    /\ GreetStart
    /\ StoreStart

Init == Start /\ faults = TRUE

\* init_db creating welcome_greet_counts anew instead of IF NOT EXISTS.
init_dbRecreatingCounts ==
    /\ ~db_ready
    /\ db_ready' = TRUE
    /\ greet_count' = [u \in Users |-> 0]
    /\ UNCHANGED <<cog, active, msgs, tasks, present, handlers, faults,
                   greeters, label, pressing, dispatched, credited, presses,
                   unsaved, storeVars>>

\* init_db: the tables are created if they do not exist (the rows of an
\* existing file are kept) and db_ready is set.
init_db ==
    /\ ~db_ready
    /\ db_ready' = TRUE
    /\ UNCHANGED <<cog, active, msgs, tasks, present, handlers, faults, greetVars, storeVars>>

\* Reload with a teardown that cancels the delete_later tasks.
ReloadCancellingTasks ==
    /\ cog < MaxReloads
    /\ cog' = cog + 1
    /\ db_ready' = FALSE
    /\ active' = [active EXCEPT ![cog + 1] = EmptyRegistry]
    /\ tasks' = [i \in 1..Len(tasks) |->
                    IF tasks[i] \in {"sleeping", "deleting"} THEN "cancelled"
                    ELSE tasks[i]]
    /\ UNCHANGED <<msgs, present, handlers, faults, greetVars, storeVars>>

\* teardown then setup: the cog is removed and a new Welcome is constructed,
\* with db_ready False and an empty registry.  Tasks created on bot.loop and
\* handlers already running are not touched.
Reload ==
    /\ cog < MaxReloads
    /\ cog' = cog + 1
    /\ db_ready' = FALSE
    /\ active' = [active EXCEPT ![cog + 1] = EmptyRegistry]
    /\ UNCHANGED <<msgs, tasks, present, handlers, faults, greetVars, storeVars>>

\* ------------------------------------------------------- on_member_join
\* on_member_join up to channel.send, for invocation r with the reads rd:
\* the early returns of lines 179-198, else the handler awaits the send.
JoinFlow(r, rd) ==
    LET c == ReadConfig(rd.row) IN
    IF ~rd.ok THEN Return(r, "returned")                  \* except Exception
    ELSE IF ~c.enabled THEN Return(r, "returned")         \* if not enabled
    ELSE IF ~c.channel THEN Return(r, "returned")         \* if not channel
    ELSE IF rd.messages = 0 THEN Return(r, "returned")    \* if not messages
    ELSE [r EXCEPT !.pc = "jsend", !.dur = c.duration]

\* Entry of on_member_join for member m (c: called by test_join_message).
\* Not ready: the listener returns, the command's wrapper replies.
StartJoin(m, c) ==
    LET r == [Idle EXCEPT !.kind = "join", !.member = m, !.cog = cog, !.cmd = c] IN
    \E rd \in Reads :
        handlers' = Started(IF db_ready THEN JoinFlow(r, rd)
                            ELSE Return(r, "not_ready"))

\* The gateway delivers a member-join event.
MemberJoin(m) ==
    /\ ~present[m]
    /\ CanStart
    /\ present' = [present EXCEPT ![m] = TRUE]
    /\ StartJoin(m, FALSE)
    /\ UNCHANGED <<db_ready, cog, active, msgs, tasks, faults, greetVars, storeVars>>

\* /welcome join test
test_join_message(m) ==
    /\ present[m]
    /\ CanStart
    /\ StartJoin(m, TRUE)
    /\ UNCHANGED <<db_ready, cog, active, msgs, tasks, present, faults, greetVars, storeVars>>

\* channel.send returns (or raises): send_formatted_message creates the
\* delete_later task and on_member_join tracks the announcement, with no
\* await in between.
JoinSendDone(me) ==
    /\ me \in Running
    /\ me.pc = "jsend"
    /\ \E sent \in BOOLEAN :
         LET i == Len(msgs) + 1
             sched == sent /\ ScheduleDelete(me.dur)
         IN
         /\ msgs' = IF sent THEN Append(msgs, Announcement("join", me.member, me.dur))
                    ELSE msgs
         /\ tasks' = IF sent
                     THEN Append(tasks, IF sched THEN "sleeping" ELSE "none")
                     ELSE tasks
         /\ active' = IF TrackJoin(sent, me.dur)
                      THEN [active EXCEPT ![me.cog] =
                              Register(@, me.member, IF sent THEN i ELSE 0,
                                       IF sched THEN i ELSE 0)]
                      ELSE active
         /\ handlers' = Moved(me, Return(me, IF sent THEN "sent" ELSE "send_failed"))
    /\ UNCHANGED <<db_ready, cog, present, faults, greetVars, storeVars>>

\* log.client of a command (or of db_ready_only) returns.
Reply(me) ==
    /\ me \in Running
    /\ me.pc = "reply"
    /\ handlers' = Moved(me, Idle)
    /\ UNCHANGED <<db_ready, cog, active, msgs, tasks, present, faults, greetVars, storeVars>>

\* ----------------------------------------------------- on_member_remove
\* LeaveFlow without `if not enabled: return`.
LeaveFlowWhenDisabled(r, rd) ==
    LET c == ReadConfig(rd.row) IN
    IF ~rd.ok THEN Return(r, "returned")
    ELSE IF ~c.channel THEN Return(r, "returned")
    ELSE IF rd.messages = 0 THEN Return(r, "returned")
    ELSE [r EXCEPT !.pc = "lsend", !.dur = c.duration, !.msg = 0, !.task = 0]

\* The leave flow of on_member_remove up to channel.send (lines 229-267).
LeaveFlow(r, rd) ==
    LET c == ReadConfig(rd.row) IN
    IF ~rd.ok THEN Return(r, "returned")                  \* except Exception
    ELSE IF ~c.enabled THEN Return(r, "returned")         \* if not enabled
    ELSE IF ~c.channel THEN Return(r, "returned")         \* if not channel
    ELSE IF rd.messages = 0 THEN Return(r, "returned")    \* if not messages
    ELSE [r EXCEPT !.pc = "lsend", !.dur = c.duration, !.msg = 0, !.task = 0]

\* Entry of on_member_remove for member m: the registry is looked up and the
\* entry popped without an await; then msg.delete() is called.  (A None
\* message raises at once and the handler goes on to the leave flow.)
StartLeave(m, c) ==
    LET e == active[cog][m]
        r == [Idle EXCEPT !.kind = "leave", !.member = m, !.cog = cog, !.cmd = c]
    IN
    \E rd \in Reads :
        IF ~db_ready
        THEN /\ handlers' = Started(Return(r, "not_ready"))
             /\ UNCHANGED <<active, msgs>>
        ELSE IF e.has /\ e.msg # 0
        THEN /\ active' = [active EXCEPT ![cog] = Pop(@, m)]
             /\ msgs' = IssueDelete(msgs, e.msg)
             /\ handlers' = Started([r EXCEPT !.pc = "ldelete", !.msg = e.msg,
                                               !.task = e.task])
        ELSE /\ active' = [active EXCEPT ![cog] = Pop(@, m)]
             /\ handlers' = Started(LeaveFlow(r, rd))
             /\ UNCHANGED msgs

\* The gateway delivers a member-remove event.
MemberRemove(m) ==
    /\ present[m]
    /\ CanStart
    /\ present' = [present EXCEPT ![m] = FALSE]
    /\ StartLeave(m, FALSE)
    /\ UNCHANGED <<db_ready, cog, tasks, faults, greetVars, storeVars>>

\* /welcome leave test
test_leave_message(m) ==
    /\ present[m]
    /\ CanStart
    /\ StartLeave(m, TRUE)
    /\ UNCHANGED <<db_ready, cog, tasks, present, faults, greetVars, storeVars>>

\* msg.delete() of on_member_remove returns or raises: NotFound is passed
\* over, any other exception skips task.cancel(); then the leave flow.
LeaveDeleteDone(me) ==
    /\ me \in Running
    /\ me.pc = "ldelete"
    /\ \E o \in DeleteOutcomes(me.msg), rd \in Reads :
         /\ msgs' = AnswerDelete(msgs, me.msg, o)
         /\ tasks' = IF o \in {"ok", "notfound"} /\ me.task # 0
                     THEN Cancel(tasks, me.task)
                     ELSE tasks
         /\ handlers' = Moved(me, LeaveFlow(me, rd))
    /\ UNCHANGED <<db_ready, cog, active, present, faults, greetVars, storeVars>>

\* channel.send of the leave announcement returns (or raises); the
\* announcement gets its own delete_later task and is not tracked.
LeaveSendDone(me) ==
    /\ me \in Running
    /\ me.pc = "lsend"
    /\ \E sent \in BOOLEAN :
         /\ sent => Len(msgs) < MaxMsgs
         /\ msgs' = IF sent THEN Append(msgs, Announcement("leave", me.member, me.dur))
                    ELSE msgs
         /\ tasks' = IF sent
                     THEN Append(tasks, IF ScheduleDelete(me.dur) THEN "sleeping"
                                        ELSE "none")
                     ELSE tasks
         /\ handlers' = Moved(me, Return(me, IF sent THEN "sent" ELSE "send_failed"))
    /\ UNCHANGED <<db_ready, cog, active, present, faults, greetVars, storeVars>>

\* --------------------------------------------------------- delete_later
\* sleep_until returns and msg.delete() is called.
TimerFire(i) ==
    /\ i \in 1..Len(tasks)
    /\ tasks[i] = "sleeping"
    /\ tasks' = [tasks EXCEPT ![i] = "deleting"]
    /\ msgs' = IssueDelete(msgs, i)
    /\ UNCHANGED <<db_ready, cog, active, present, handlers, faults, greetVars, storeVars>>

\* msg.delete() of delete_later returns or raises; every Exception is
\* logged and the task ends.  The registry is not touched.
TimerDeleteDone(i) ==
    /\ i \in 1..Len(tasks)
    /\ tasks[i] = "deleting"
    /\ \E o \in DeleteOutcomes(i) :
         /\ msgs' = AnswerDelete(msgs, i, o)
         /\ tasks' = [tasks EXCEPT ![i] = TaskEnd(o)]
    /\ UNCHANGED <<db_ready, cog, active, present, handlers, faults, greetVars, storeVars>>

\* ------------------------------------------------ WelcomeButton.callback
Pressing == BagToSet(pressing)

Range(q) == {q[k] : k \in 1..Len(q)}

\* How many times u is in the list q.
Occurrences(q, u) == Cardinality({k \in 1..Len(q) : q[k] = u})

\* Rejected without the test of the greeter list.
RejectedOnlySelf(u, b) == u = msgs[b].member

\* The press is turned down: the presser is the greeted member, or is
\* already in the button's greeters (lines 510 and 515).
Rejected(u, b) == u = msgs[b].member \/ u \in Range(greeters[b])

\* User u presses the greet button of announcement b.  A rejected press
\* awaits its notice; an accepted one awaits increment_greet_count.
callback(u, b) ==
    /\ presses < MaxPresses
    /\ b \in 1..Len(msgs)
    /\ msgs[b].kind = "join"
    /\ msgs[b].live
    /\ presses' = presses + 1
    /\ pressing' = pressing (+) SetToBag({[pc |-> IF Rejected(u, b) THEN "notice"
                                                 ELSE "inc",
                                          user |-> u, btn |-> b]})
    /\ UNCHANGED <<lifeVars, storeVars, greeters, label, greet_count, dispatched, credited,
                   unsaved>>

\* log.client of a rejected press returns.
NoticeDone(p) ==
    /\ p \in Pressing
    /\ p.pc = "notice"
    /\ pressing' = pressing (-) SetToBag({p})
    /\ UNCHANGED <<lifeVars, storeVars, greeters, label, greet_count, dispatched, credited,
                   presses, unsaved>>

\* IncrementCommit in a callback that catches what increment_greet_count
\* raises and goes on.
IncrementCommitCaught(p) ==
    /\ p \in Pressing
    /\ p.pc = "inc"
    /\ \E ok \in BOOLEAN :
         /\ greet_count' = IF ok THEN [greet_count EXCEPT ![p.user] = @ + 1]
                           ELSE greet_count
         /\ credited' = IF ok THEN [credited EXCEPT ![p.btn][p.user] = @ + 1]
                        ELSE credited
         /\ unsaved' = IF ok THEN unsaved
                       ELSE [unsaved EXCEPT ![p.btn][p.user] = @ + 1]
         /\ pressing' = (pressing (-) SetToBag({p})) (+)
                        SetToBag({[p EXCEPT !.pc = "close"]})
    /\ UNCHANGED <<lifeVars, storeVars, greeters, label, dispatched, presses>>

\* increment_greet_count: the upsert is committed (count = count + 1 in one
\* statement), or the store raises and the exception leaves callback.
IncrementCommit(p) ==
    /\ p \in Pressing
    /\ p.pc = "inc"
    /\ \E ok \in BOOLEAN :
         /\ greet_count' = IF ok THEN [greet_count EXCEPT ![p.user] = @ + 1]
                           ELSE greet_count
         /\ credited' = IF ok THEN [credited EXCEPT ![p.btn][p.user] = @ + 1]
                        ELSE credited
         /\ unsaved' = IF ok THEN unsaved
                       ELSE [unsaved EXCEPT ![p.btn][p.user] = @ + 1]
         /\ pressing' = IF ok
                        THEN (pressing (-) SetToBag({p})) (+)
                             SetToBag({[p EXCEPT !.pc = "close"]})
                        ELSE pressing (-) SetToBag({p})
    /\ UNCHANGED <<lifeVars, storeVars, greeters, label, dispatched, presses>>

\* The label computed before the presser is appended.
LabelBeforeAppend(q) == Len(q) - 1

\* self.label = f"Welcomed ({len(self.greeters)})": the count in the label
\* (0 stands for the initial label, which shows no count).
Label(q) == Len(q)

\* The connection is closed and increment_greet_count returns: the presser
\* is appended, the label set, and edit_message awaited (lines 522-526).
IncrementReturn(p) ==
    /\ p \in Pressing
    /\ p.pc = "close"
    /\ greeters' = [greeters EXCEPT ![p.btn] = Append(@, p.user)]
    /\ label' = [label EXCEPT ![p.btn] = Label(greeters'[p.btn])]
    /\ pressing' = (pressing (-) SetToBag({p})) (+)
                   SetToBag({[p EXCEPT !.pc = "edit"]})
    /\ UNCHANGED <<lifeVars, storeVars, greet_count, dispatched, credited, presses,
                   unsaved>>

\* edit_message returns, and on_greeting is dispatched; or it raises and
\* the exception leaves callback.
EditDone(p) ==
    /\ p \in Pressing
    /\ p.pc = "edit"
    /\ \E ok \in BOOLEAN :
         dispatched' = IF ok THEN dispatched + 1 ELSE dispatched
    /\ pressing' = pressing (-) SetToBag({p})
    /\ UNCHANGED <<lifeVars, storeVars, greeters, label, greet_count, credited, presses,
                   unsaved>>

\* -------------------------------------------------------- store commands
\* A settings command between its SELECT and its upsert, with the row it
\* has read.  The notice a command sends to the invoker is its last await
\* and is taken together with the step before it.
Update(d, given, old) == [dir |-> d, given |-> given, old |-> old]

Commands == BagToSet(commands)

\* db_ready_only without its test.
RefusedNever == FALSE

\* db_ready_only: `if not self.db_ready`, the command is not run and the
\* invoker is told to try again.
Refused == ~db_ready

\* /welcome <d> settings with the fields of `given` supplied: the wrapper,
\* then the SELECT; with no field supplied the row is shown, else the
\* command goes on to its upsert with the row it has read.
set_config(d, given) ==
    /\ issued < MaxCmds
    /\ issued' = issued + 1
    /\ \E ok \in BOOLEAN :
         IF Refused \/ ~ok \/ given = {}
         THEN /\ notice' = Answer("settings", IF Refused THEN "not_ready"
                                              ELSE IF ~ok THEN "failure"
                                              ELSE "view")
              /\ UNCHANGED commands
         ELSE /\ commands' = commands (+)
                     SetToBag({Update(d, given, Select(config, d))})
              /\ UNCHANGED notice
    /\ UNCHANGED <<lifeVars, greetVars, config, templates, next_id>>

set_join_config(given) == set_config("join", given)

set_leave_config(given) == set_config("leave", given)

\* The upsert and commit of a settings command, one sqlite transaction; or
\* the store raises and nothing is written.
SettingsCommit(f) ==
    /\ f \in Commands
    /\ \E ok \in BOOLEAN :
         /\ config' = IF ok THEN Upsert(config, f.dir, Merged(f.old, f.given))
                      ELSE config
         /\ notice' = Answer("settings", IF ok THEN "success" ELSE "failure")
    /\ commands' = commands (-) SetToBag({f})
    /\ UNCHANGED <<lifeVars, greetVars, templates, next_id, issued>>

\* /welcome <d> add-message in community g: the wrapper, then INSERT and
\* commit in one transaction.
add_message(d, g) ==
    /\ issued < MaxCmds
    /\ issued' = issued + 1
    /\ \E ok \in BOOLEAN :
         LET done == ~Refused /\ ok IN
         /\ templates' = IF done
                         THEN [templates EXCEPT ![d] = Insert(@, next_id[d], g)]
                         ELSE templates
         /\ next_id' = IF done THEN [next_id EXCEPT ![d] = @ + 1] ELSE next_id
         /\ notice' = Answer("add", IF Refused THEN "not_ready"
                                    ELSE IF ok THEN "success" ELSE "failure")
    /\ UNCHANGED <<lifeVars, greetVars, config, commands>>

add_join_message(g) == add_message("join", g)

add_leave_message(g) == add_message("leave", g)

\* /welcome <d> remove-message id in community g: the wrapper, then the
\* DELETE, committed when rowcount > 0, else the failure notice.
remove_message(d, g, id) ==
    /\ issued < MaxCmds
    /\ issued' = issued + 1
    /\ \E ok \in BOOLEAN :
         LET after == Delete(templates[d], id, g)
             rowcount == Cardinality(templates[d]) - Cardinality(after)
             done == ~Refused /\ ok /\ rowcount > 0
         IN
         /\ templates' = IF done THEN [templates EXCEPT ![d] = after]
                         ELSE templates
         /\ notice' = [Answer("remove", IF Refused THEN "not_ready"
                                        ELSE IF done THEN "success"
                                        ELSE "failure")
                          EXCEPT !.dir = d, !.guild = g, !.id = id]
    /\ UNCHANGED <<lifeVars, greetVars, config, next_id, commands>>

remove_join_message(g, id) == remove_message("join", g, id)

remove_leave_message(g, id) == remove_message("leave", g, id)

\* -------------------------------------------------------- specifications
\* The membership events, the test commands, the timers and the reloads.
Next ==
    \/ init_db
    \/ Reload
    \/ \E m \in Members : MemberJoin(m)
    \/ \E m \in Members : test_join_message(m)
    \/ \E m \in Members : MemberRemove(m)
    \/ \E m \in Members : test_leave_message(m)
    \/ \E r \in Running : JoinSendDone(r)
    \/ \E r \in Running : LeaveDeleteDone(r)
    \/ \E r \in Running : LeaveSendDone(r)
    \/ \E r \in Running : Reply(r)
    \/ \E i \in MsgIds : TimerFire(i)
    \/ \E i \in MsgIds : TimerDeleteDone(i)

Spec == Init /\ [][Next]_vars

\* The same with a channel whose delete calls fail only by NotFound, and an
\* event loop that runs every delete_later task whose deadline has passed.
ReliableInit == Start /\ faults = FALSE

ReliableSpec ==
    /\ ReliableInit
    /\ [][Next]_vars
    /\ \A i \in MsgIds : WF_vars(TimerFire(i)) /\ WF_vars(TimerDeleteDone(i))

\* on_member_remove invoked while other invocations are suspended at an
\* await: by the gateway (c false) or by /welcome leave test (c true).  One
\* invocation more than the channel has room for may run; its send fails.
CanOverlap == Len(msgs) + BagCardinality(handlers) <= MaxMsgs

on_member_remove(m, c) ==
    /\ present[m]
    /\ CanOverlap
    /\ present' = IF c THEN present ELSE [present EXCEPT ![m] = FALSE]
    /\ StartLeave(m, c)
    /\ UNCHANGED <<db_ready, cog, tasks, faults, greetVars, storeVars>>

\* Leave handlers overlapping each other, the join handler and the timers,
\* in one cog instance whose delete calls fail only by NotFound.
OverlapNext ==
    \/ init_db
    \/ \E m \in Members : MemberJoin(m)
    \/ \E m \in Members, c \in BOOLEAN : on_member_remove(m, c)
    \/ \E r \in Running : JoinSendDone(r)
    \/ \E r \in Running : LeaveDeleteDone(r)
    \/ \E r \in Running : LeaveSendDone(r)
    \/ \E r \in Running : Reply(r)
    \/ \E i \in MsgIds : TimerFire(i)
    \/ \E i \in MsgIds : TimerDeleteDone(i)

OverlapSpec == ReliableInit /\ [][OverlapNext]_vars

\* The channel's side of `except discord.NotFound`: a moderator (or Discord)
\* removes announcement i from the channel, with no delete call of the cog.
DeletedByModerator(i) ==
    /\ i \in 1..Len(msgs)
    /\ msgs[i].live
    /\ msgs' = [msgs EXCEPT ![i].live = FALSE]
    /\ UNCHANGED <<db_ready, cog, active, tasks, present, handlers, faults,
                   greetVars, storeVars>>

\* The cog in a channel whose announcements can also be deleted by others;
\* delete calls fail only by NotFound.
ModeratedNext ==
    \/ Next
    \/ \E i \in MsgIds : DeletedByModerator(i)

ModeratedSpec == ReliableInit /\ [][ModeratedNext]_vars

\* The settings commands of the administrators, interleaved at the await
\* between their SELECT and their upsert.
SettingsNext ==
    \/ init_db
    \/ \E given \in SUBSET Fields : set_join_config(given)
    \/ \E given \in SUBSET Fields : set_leave_config(given)
    \/ \E f \in Commands : SettingsCommit(f)

SettingsSpec == Init /\ [][SettingsNext]_vars

\* The template commands at any time, with reloads; and what arrives while
\* the loaded cog has not finished init_db: settings commands, membership
\* events and test commands.
AdminNext ==
    \/ init_db
    \/ Reload
    \/ \E g \in Guilds : add_join_message(g)
    \/ \E g \in Guilds : add_leave_message(g)
    \/ \E g \in Guilds, id \in 1..MaxCmds : remove_join_message(g, id)
    \/ \E g \in Guilds, id \in 1..MaxCmds : remove_leave_message(g, id)
    \/ \E given \in SUBSET Fields : ~db_ready /\ set_join_config(given)
    \/ \E given \in SUBSET Fields : ~db_ready /\ set_leave_config(given)
    \/ \E m \in Members : ~db_ready /\ MemberJoin(m)
    \/ \E m \in Members : ~db_ready /\ test_join_message(m)
    \/ \E m \in Members : ~db_ready /\ MemberRemove(m)
    \/ \E m \in Members : ~db_ready /\ test_leave_message(m)
    \/ \E r \in Running : Reply(r)

AdminSpec == Init /\ [][AdminNext]_vars

\* The greet buttons: join announcements without auto-delete are in the
\* channel, their member present, and users press the buttons; the module
\* is reloaded, which leaves the buttons' views and the sqlite file alone.
GreetInit ==
    /\ db_ready = TRUE
    /\ cog = 0
    /\ active = [c \in Cogs |-> EmptyRegistry]
    /\ msgs = [b \in MsgIds |-> Announcement("join", "m1", 0)]
    /\ tasks = [b \in MsgIds |-> "none"]
    /\ present = [m \in Members |-> TRUE]
    /\ handlers = EmptyBag
    /\ faults = TRUE
    /\ GreetStart
    /\ StoreStart

GreetNext ==
    \/ init_db
    \/ Reload
    \/ \E u \in Users, b \in MsgIds : callback(u, b)
    \/ \E p \in Pressing : NoticeDone(p)
    \/ \E p \in Pressing : IncrementCommit(p)
    \/ \E p \in Pressing : IncrementReturn(p)
    \/ \E p \in Pressing : EditDone(p)

GreetSpec == GreetInit /\ [][GreetNext]_vars

\* -------------------------------------------------------------- properties
JoinAnnouncements == {i \in 1..Len(msgs) : msgs[i].kind = "join"}

\* The delete_later task of announcement i has not finished.
Outstanding(i) == tasks[i] \in {"sleeping", "deleting"}

\* C1: once the deletion task of a join announcement has run to completion
\* and the member has not left (the entry was not popped), the registry
\* holds no entry for that (community, member) pair.
C1_NoEntryAfterTimerRan ==
    \A m \in Members :
        LET e == active[cog][m] IN
        (e.has /\ e.task \in 1..Len(tasks)) => tasks[e.task] # "done"

\* C2: at most one delete call is issued to the channel for a join
\* announcement sent with a positive auto-delete duration.
C2_AtMostOneDeleteCall ==
    \A i \in JoinAnnouncements : msgs[i].timed => msgs[i].delCalls <= 1

\* A leave handler is awaiting its delete call for announcement i.
LeaveDeleting(i) == \E r \in Running : r.pc = "ldelete" /\ r.msg = i

\* C3: when a member left before the deadline and on_member_remove is done
\* with the early deletion (a delete call was issued while the task slept,
\* and no leave handler still awaits one), the deletion task does not issue
\* a delete call afterwards, whatever the handler's delete call answered.
C3_NoTimerDeleteAfterLeave ==
    [][\A i \in JoinAnnouncements :
          (tasks[i] = "sleeping" /\ msgs[i].delCalls > 0 /\ ~LeaveDeleting(i))
              => tasks'[i] # "deleting"]_vars

\* C5: the registry never holds an entry for a member who has left: a leave
\* handler does not miss the entry of a join handler that started before it.
C5_NoEntryForLeftMember ==
    \A m \in Members : active[cog][m].has => present[m]

\* C6: at most one deletion task of a join announcement is outstanding per
\* (community, member) pair.
C6_OneTaskPerPair ==
    \A m \in Members :
        Cardinality({i \in JoinAnnouncements :
                        msgs[i].member = m /\ Outstanding(i)}) <= 1

\* C7: with fair scheduling and delete calls that fail only by NotFound,
\* every join announcement sent with a positive auto-delete duration is
\* eventually deleted and from then on stays deleted with exactly one
\* successful delete to its name, whether the timer, a leave or a reload
\* comes first: from some point on this holds of every such announcement
\* that was ever sent.  (Announcements are never taken off the channel's
\* record and successful deletes are only ever counted up, so one that is
\* never deleted, or a second delete at any time, would refute this.)
C7_DeletedExactlyOnce ==
    <>[](\A i \in JoinAnnouncements :
            msgs[i].timed => ~msgs[i].live /\ msgs[i].okDeletes = 1)

\* After a reload, the timer alone has deleted a timed join announcement.
C7_Witness ==
    \E i \in JoinAnnouncements :
        /\ cog > 0
        /\ msgs[i].timed /\ ~msgs[i].live /\ msgs[i].okDeletes = 1
        /\ tasks[i] = "done" /\ msgs[i].delCalls = 1

\* C8: a join announcement sent with a zero or negative duration is in the
\* channel with no deletion task and no pending entry, and no delete call is
\* ever issued for it, also after the member has left.
C8_UntimedJoinUntouched ==
    \A i \in JoinAnnouncements :
        ~msgs[i].timed =>
            /\ msgs[i].live
            /\ tasks[i] = "none"
            /\ msgs[i].delCalls = 0
            /\ \A c \in Cogs, m \in Members : active[c][m].msg # i
            /\ \A r \in Running : r.msg # i

\* An untimed join announcement, then the member's leave announcement: the
\* member has left, every handler has returned.
C8_Witness ==
    \E i \in JoinAnnouncements, j \in 1..Len(msgs) :
        /\ ~msgs[i].timed /\ msgs[i].live
        /\ i < j /\ msgs[j].kind = "leave" /\ msgs[j].member = msgs[i].member
        /\ ~present[msgs[i].member]
        /\ handlers = EmptyBag

\* C9: when on_member_join completes after sending an announcement with a
\* positive duration, the registry of its cog holds for the member the entry
\* made of the announcement just sent and of its sleeping deletion task.
C9_JoinRegistered ==
    [][\A r \in Running :
          (/\ r.pc = "jsend" /\ r.dur > 0
           /\ Len(msgs') = Len(msgs) + 1
           /\ handlers' = Moved(r, Return(r, "sent")))
          => /\ msgs'[Len(msgs')].kind = "join"
             /\ active'[r.cog][r.member] =
                    [has |-> TRUE, msg |-> Len(msgs'), task |-> Len(msgs')]
             /\ tasks'[Len(msgs')] = "sleeping"]_vars

\* The registry holds the entry of a timed join announcement and its task.
C9_Witness ==
    \E m \in Members :
        LET e == active[cog][m] IN
        /\ e.has /\ e.msg \in JoinAnnouncements /\ e.task = e.msg
        /\ msgs[e.msg].timed /\ msgs[e.msg].member = m
        /\ tasks[e.task] = "sleeping"

\* C10: in a step that adds no join announcement to the channel (the store
\* not ready, a query failing, join disabled, no channel, no template, the
\* send failing), no registry gains or changes an entry and no deletion
\* task is created.
C10_NoEntryWithoutSend ==
    [][(Len(msgs') = Len(msgs) \/ msgs'[Len(msgs')].kind # "join")
          => /\ \A c \in Cogs, m \in Members :
                    active'[c][m].has => active'[c][m] = active[c][m]
             /\ Len(msgs') = Len(msgs)
                    => /\ Len(tasks') = Len(tasks)
                       /\ \A i \in 1..Len(tasks) :
                              Outstanding(i)' => Outstanding(i)]_vars

\* test_join_message has returned from a send that failed: nothing is
\* registered and no task exists.
C10_Witness ==
    /\ \E r \in Running :
          r.pc = "reply" /\ r.kind = "join" /\ r.outcome = "send_failed"
    /\ \A c \in Cogs, m \in Members : ~active[c][m].has
    /\ tasks = <<>>

\* C4: a presser is at most once in an announcement's greeter list, and the
\* stored counter of the presser grows by exactly one on account of that
\* announcement, however often the presser presses.
C4_GreetedOnce ==
    \A b \in MsgIds, u \in Users :
        /\ Occurrences(greeters[b], u) <= 1
        /\ credited[b][u] <= 1
        /\ Occurrences(greeters[b], u) = 1 => credited[b][u] = 1

\* C11: a press by the greeted member, or by a presser already in the
\* button's greeter list, is turned down: its handler only awaits the notice,
\* and neither the press nor the notice changes the greeter lists, the
\* labels or the stored counters, or dispatches on_greeting.
C11_RejectedPressChangesNothing ==
    [][/\ presses' = presses + 1
          => /\ UNCHANGED <<greeters, label, greet_count, dispatched>>
             /\ \A f \in BagToSet(pressing') :
                   (/\ CopiesIn(f, pressing') > CopiesIn(f, pressing)
                    /\ \/ f.user = msgs[f.btn].member
                       \/ f.user \in Range(greeters[f.btn]))
                   => f.pc = "notice"
       /\ \A p \in Pressing :
             (p.pc = "notice" /\ pressing' = pressing (-) SetToBag({p}))
             => UNCHANGED <<greeters, label, greet_count, dispatched>>]_vars

\* Two rejected presses await their notices: one by the greeted member, one
\* by a presser who is in the greeter list.
C11_Witness ==
    \E p, q \in Pressing :
        /\ p.pc = "notice" /\ p.user = msgs[p.btn].member
        /\ q.pc = "notice" /\ q.user \in Range(greeters[q.btn])

\* C12: no step lowers a stored greet counter, and a reload of the module
\* with the init_db of the new cog leaves every stored counter as it was.
C12_CountsKept ==
    [][/\ \A u \in Users : greet_count'[u] >= greet_count[u]
       /\ (cog' # cog \/ db_ready' # db_ready) => greet_count' = greet_count]_vars

\* The module was reloaded and initialised again after a greet was counted,
\* and the counter is still there.
C12_Witness ==
    /\ cog > 0 /\ db_ready
    /\ pressing = EmptyBag
    /\ \E u \in Users : greet_count[u] > 0

\* C13: a delete call answered with NotFound counts as success: where delete
\* calls fail in no other way, no deletion task ends by recording an error.
C13_NotFoundIsSuccess ==
    ~faults => \A i \in 1..Len(tasks) : tasks[i] # "failed"

\* How many invocations of on_member_join await their channel.send.
JoinsSending ==
    LET S == {r \in Running : r.pc = "jsend"} IN
    BagCardinality([r \in S |-> handlers[r]])

\* The rows and templates with which on_member_remove is to send.
LeaveDue(rd) ==
    rd.ok /\ rd.row.exists /\ rd.row.enabled /\ rd.row.channel /\ rd.messages > 0

\* C14: on_member_remove goes on to send a leave announcement exactly when
\* the store is ready, leave is enabled, the channel resolves and there is a
\* template: an invocation starts past its db_ready test only when the cog is
\* ready, its leave flow reaches the send exactly on such reads, and it
\* enters that flow from the early deletion whatever the delete call
\* answered; and no step other than the end of a join's send adds or changes
\* a registry entry.
C14_LeaveFlowIndependent ==
    /\ \A rd \in Stored :
          LeaveFlow([Idle EXCEPT !.kind = "leave"], rd).pc = "lsend"
             <=> LeaveDue(rd)
    /\ [][/\ \A f \in BagToSet(handlers') :
             (/\ f.kind = "leave"
              /\ BagCardinality(handlers') > BagCardinality(handlers)
              /\ CopiesIn(f, handlers') > CopiesIn(f, handlers)
              /\ f.pc \in {"ldelete", "lsend"})
             => db_ready
          /\ \A me \in Running :
                (me.pc = "ldelete" /\ CopiesIn(me, handlers') < CopiesIn(me, handlers))
                => \E rd \in Reads : handlers' = Moved(me, LeaveFlow(me, rd))
          /\ JoinsSending' >= JoinsSending
                => \A c \in Cogs, m \in Members :
                      active'[c][m].has => active'[c][m] = active[c][m]]_vars

\* A leave announcement was sent although the early deletion of the
\* member's join announcement failed: that announcement is still in the
\* channel with one delete call made and its task still sleeping.
C14_Witness ==
    \E i \in JoinAnnouncements, j \in 1..Len(msgs) :
        /\ msgs[j].kind = "leave" /\ msgs[j].member = msgs[i].member /\ i < j
        /\ msgs[i].timed /\ msgs[i].live /\ msgs[i].delCalls = 1
        /\ tasks[i] = "sleeping"
        /\ \A c \in Cogs, m \in Members : ~active[c][m].has

\* C15: in every state the count in a button's label is the length of the
\* button's greeter list (no count while the list is empty), whatever press
\* handlers are suspended.
C15_LabelIsGreeterCount ==
    \A b \in MsgIds : label[b] = Len(greeters[b])

\* A button with a greeter and a count in its label while one press handler
\* awaits edit_message and another awaits increment_greet_count.
C15_Witness ==
    \E p, q \in Pressing :
        /\ p.btn = q.btn
        /\ p.pc = "edit" /\ q.pc \in {"inc", "close"}
        /\ Len(greeters[p.btn]) >= 1 /\ label[p.btn] >= 1

\* The pressers recorded in the greeter lists of the buttons 1..b.
RECURSIVE Greeted(_)
Greeted(b) == IF b = 0 THEN 0 ELSE Len(greeters[b]) + Greeted(b - 1)

\* How many invocations of callback await edit_message.
Editing ==
    LET S == {p \in Pressing : p.pc = "edit"} IN
    BagCardinality([p \in S |-> pressing[p]])

\* C16: every accepted press dispatches on_greeting exactly once, also when
\* edit_message fails: the dispatches made and the presses that still await
\* edit_message add up to the pressers recorded.
C16_OneNotificationPerGreet ==
    dispatched + Editing = Greeted(MaxMsgs)

\* C17: a store command, a test command or a membership event that arrives
\* while the loaded cog has not finished init_db changes neither the store
\* nor any registry and sends no announcement: a command ends with the
\* try-again notice, a listener returns.  And the db_ready of a cog never
\* goes back to False: only a newly constructed cog is not ready.
C17_NotReadyNoEffect ==
    [][/\ (~db_ready /\ issued' = issued + 1)
          => /\ UNCHANGED <<config, templates, next_id, commands>>
             /\ UNCHANGED <<active, msgs, tasks>>
             /\ notice'.outcome = "not_ready"
       /\ (/\ ~db_ready
           /\ \/ present' # present
              \/ BagCardinality(handlers') > BagCardinality(handlers))
          => /\ UNCHANGED <<config, templates, next_id, commands>>
             /\ UNCHANGED <<active, msgs, tasks>>
             /\ \A f \in BagToSet(handlers') :
                   CopiesIn(f, handlers') > CopiesIn(f, handlers)
                   => f.pc = "reply" /\ f.outcome = "not_ready"
       /\ (db_ready /\ ~db_ready') => cog' # cog]_vars

\* After a reload, with templates in the store, the new cog is not ready:
\* a store command and a test command have been refused.
C17_Witness ==
    /\ cog > 0 /\ ~db_ready
    /\ \E d \in Directions : templates[d] # {}
    /\ notice.outcome = "not_ready"
    /\ \E r \in Running : r.pc = "reply" /\ r.outcome = "not_ready"

\* C18: a settings command that succeeds changes exactly the fields it
\* supplies in the row of its direction: an omitted field keeps the value
\* stored when the command writes (the default when there was no row), the
\* other direction keeps its values; and a command without arguments does
\* not modify the store.
C18_ExactlySuppliedFields ==
    [][/\ \A f \in Commands :
             (/\ CopiesIn(f, commands') < CopiesIn(f, commands)
              /\ notice'.outcome = "success")
             => /\ config'[f.dir] = Merged(Select(config, f.dir), f.given)
                /\ \A e \in Directions \ {f.dir} : config'[e] = Select(config, e)
       /\ (issued' = issued + 1 /\ notice'.outcome = "view")
             => config' = config]_vars

\* C19: remove-message id in community C removes nothing but the template
\* of that table with that id that belongs to C; when there is none, no
\* template of any community is removed and the notice is a failure notice.
C19_RemoveOnlyOwnTemplate ==
    [][(issued' = issued + 1 /\ notice'.cmd = "remove" /\ ~Refused)
          => LET d == notice'.dir
                 own == {t \in templates[d] :
                            t.id = notice'.id /\ t.guild = notice'.guild}
             IN
             /\ \A e \in Directions \ {d} : templates'[e] = templates[e]
             /\ templates'[d] \subseteq templates[d]
             /\ (templates[d] \ templates'[d]) \subseteq own
             /\ notice'.outcome = "success" => templates'[d] = templates[d] \ own
             /\ own = {} => /\ templates' = templates
                            /\ notice'.outcome = "failure"]_vars

\* remove-message with the id of another community's template has ended
\* with the failure notice, and that template is still in the table.
C19_Witness ==
    /\ notice.cmd = "remove" /\ notice.outcome = "failure"
    /\ \E t \in templates[notice.dir] :
          t.id = notice.id /\ t.guild # notice.guild

\* The registry entries, of any cog instance, that hold announcement i.
Held(i) ==
    Cardinality({e \in Cogs \X Members :
                   active[e[1]][e[2]].has /\ active[e[1]][e[2]].msg = i})

\* The leave handlers that popped the entry of announcement i and are
\* awaiting the delete call they issued for it.
Holding(i) ==
    LET S == {f \in Running : f.kind = "leave" /\ f.pc = "ldelete" /\ f.msg = i}
    IN BagCardinality([f \in S |-> handlers[f]])

\* C20: a pending entry is obtained by at most one on_member_remove.  The
\* entry of an announcement is in at most one registry slot or in the hands
\* of at most one leave handler, never both; the step in which a handler
\* obtains it (and issues the early delete) takes it out of the registry; an
\* entry that is out of the registry never returns; and a deletion task is
\* cancelled only by the handler that holds its entry.  So of two leave
\* handlers interleaved at their awaits at most one finds the entry, issues
\* the early delete and cancels the task.
C20_EntryPoppedOnce ==
    [][\A i \in 1..Len(msgs) :
          /\ Held(i) + Holding(i) <= 1
          /\ Held(i)' + Holding(i)' <= 1
          /\ Holding(i)' > Holding(i) =>
                /\ Held(i) = 1 /\ Held(i)' = 0
                /\ msgs'[i].delCalls = msgs[i].delCalls + 1
          /\ Held(i) = 0 => Held(i)' = 0
          /\ (tasks[i] # "cancelled" /\ tasks'[i] = "cancelled") =>
                Holding(i) = 1 /\ Holding(i)' = 0]_vars

\* A test command's on_member_remove holds the entry and awaits its delete
\* call while the member leaves: the second handler found no entry and went
\* on to its leave announcement.
C20_Witness ==
    \E i \in 1..Len(msgs), f \in Running, g \in Running :
        /\ f.pc = "ldelete" /\ f.msg = i /\ f.cmd
        /\ g.kind = "leave" /\ g.pc = "lsend" /\ ~g.cmd
        /\ Held(i) = 0
        /\ msgs[i].delCalls = 1

\* C21: the deletion task of a join announcement never performs its delete
\* before on_member_join has registered the entry.  The step in which the
\* announcement appears with its task is the step that writes the entry
\* (message, task) into the registry of the handler's cog; in that step the
\* task is still sleeping and no delete call has been made for the
\* announcement, so every delete call of the task is a later step.
C21_RegisteredBeforeTimerDeletes ==
    [][\A i \in MsgIds :
          (i = Len(msgs') /\ Len(msgs') > Len(msgs) /\ msgs'[i].kind = "join")
          => /\ tasks'[i] \in {"sleeping", "none"}
             /\ msgs'[i].delCalls = 0
             /\ msgs'[i].live
             /\ tasks'[i] = "sleeping" =>
                   \E c \in Cogs :
                       active'[c][msgs'[i].member] =
                           [has |-> TRUE, msg |-> i, task |-> i]]_vars

\* The deletion task of a join announcement has made its delete call, and
\* the entry registered with the announcement is still in the registry.
C21_Witness ==
    \E i \in JoinAnnouncements, c \in Cogs :
        /\ tasks[i] = "deleting"
        /\ msgs[i].delCalls = 1
        /\ active[c][msgs[i].member] = [has |-> TRUE, msg |-> i, task |-> i]

\* C22: last join wins, and the earlier timer minds its own announcement.
\* When a join handler's send ends with a timed announcement while its cog's
\* registry still holds an entry for the member, the slot afterwards is the
\* entry of the new announcement and its task, and nothing else in any
\* registry changes; and a step of any deletion task (its delete call, or
\* the answer to it) changes no registry, no other task and no announcement
\* but the task's own.
C22_LastJoinWins ==
    [][/\ \A f \in Running :
             (/\ f.pc = "jsend" /\ f.dur > 0
              /\ CopiesIn(f, handlers') < CopiesIn(f, handlers)
              /\ Len(msgs') > Len(msgs)
              /\ active[f.cog][f.member].has)
             => active' = [active EXCEPT ![f.cog][f.member] =
                              [has |-> TRUE, msg |-> Len(msgs'),
                               task |-> Len(msgs')]]
       /\ \A i \in 1..Len(tasks) :
             (/\ tasks[i] \in {"sleeping", "deleting"}
              /\ tasks'[i] \in {"deleting", "done", "failed"}
              /\ tasks'[i] # tasks[i])
             => /\ active' = active
                /\ Len(msgs') = Len(msgs) /\ Len(tasks') = Len(tasks)
                /\ \A j \in 1..Len(msgs) :
                      j # i => msgs'[j] = msgs[j] /\ tasks'[j] = tasks[j]]_vars

\* The member's first timed join announcement was overwritten in the
\* registry by a second one and has since been deleted by its own task; the
\* second announcement is untouched and its entry is the one registered.
C22_Witness ==
    \E i \in JoinAnnouncements, j \in JoinAnnouncements, c \in Cogs :
        /\ i < j /\ msgs[i].member = msgs[j].member
        /\ msgs[i].timed /\ ~msgs[i].live /\ tasks[i] = "done"
        /\ msgs[j].live /\ msgs[j].delCalls = 0 /\ tasks[j] = "sleeping"
        /\ active[c][msgs[j].member] = [has |-> TRUE, msg |-> j, task |-> j]

\* C23: a press whose increment_greet_count raises leaves no trace but the
\* exception.  In the step in which an accepted press leaves its await of
\* the increment with the stored counter unchanged, the callback is over:
\* the greeter list, the label and the number of notifications are as they
\* were, and the presser is turned down afterwards only if they were turned
\* down before.  And in every state a user is in a button's greeter list no
\* more often than an increment was committed for their presses of it.
C23_UnsavedPressLeavesNoTrace ==
    [][/\ \A p \in Pressing :
             (/\ p.pc = "inc"
              /\ CopiesIn(p, pressing') < CopiesIn(p, pressing)
              /\ greet_count' = greet_count)
             => /\ pressing' = pressing (-) SetToBag({p})
                /\ greeters' = greeters
                /\ label' = label
                /\ dispatched' = dispatched
                /\ unsaved'[p.btn][p.user] = unsaved[p.btn][p.user] + 1
                /\ Rejected(p.user, p.btn)' => Rejected(p.user, p.btn)
       /\ \A b \in MsgIds, u \in Users :
             Occurrences(greeters[b], u) <= credited[b][u]]_vars

\* A user's press of a button was lost to a failing store, and another
\* press of the same button by the same user was accepted: of their two
\* presses one was counted, and the list and the label show one greeter.
C23_Witness ==
    \E b \in MsgIds, u \in Users :
        /\ presses = 2
        /\ unsaved[b][u] = 1
        /\ credited[b][u] = 1
        /\ greeters[b] = <<u>>
        /\ label[b] = 1
        /\ greet_count[u] = 1

\* C24: settings commands for the same direction that supply different
\* fields all take effect, however their reads and writes interleave.  Every
\* command supplies the same new value for a field and none resets one, so
\* a field that holds its supplied value holds it after every later step;
\* with both fields supplied, both then hold their values once the two
\* commands are over.
C24_BothSettingsTakeEffect ==
    [][\A d \in Directions, f \in Fields :
          Select(config, d)[f] = NewValue[f] => config'[d][f] = NewValue[f]]_vars

============================================================================
